---- MODULE Spec2Model ----
(***************************************************************************)
(* Model of setup.py of qulacs: the CMake build orchestration performed by *)
(* CMakeBuild (run / build_extension / _generate_args) and the CPU-count   *)
(* probe _get_n_cpus.                                                      *)
(*                                                                         *)
(* Python strings are TLA+ strings (concatenated with \o, sliced with      *)
(* SubSeq), Python lists are sequences, an optional value (None or a       *)
(* string) is the empty sequence or a one-element sequence.                *)
(***************************************************************************)
EXTENDS Naturals, Sequences, FiniteSets, TLC

VARIABLES
    platform_system,  \* platform.system() of the host
    maxsize64,        \* sys.maxsize > 2 ** 32
    debug,            \* self.debug
    opt_flags,        \* self.opt_flags (None, or the --opt-flags value)
    environ,          \* os.environ, restricted to the variables read
    extensions,       \* self.extensions, as the sequence of ext.name
    pc,               \* position of the interpreter in run/build_extension
    idx,              \* index in self.extensions of the current target
    cmake_args,       \* local cmake_args of the current build_extension call
    build_args,       \* local build_args of the current build_extension call
    fs,               \* directories that exist on the filesystem
    made,             \* directories this run passed to os.makedirs
    calls,            \* subprocesses spawned so far, in order
    error             \* the exception that ended the run, if any

vars == <<platform_system, maxsize64, debug, opt_flags, environ, extensions,
          pc, idx, cmake_args, build_args, fs, made, calls, error>>

hostvars == <<platform_system, maxsize64, debug, opt_flags, environ, extensions>>

----------------------------------------------------------------------------
(* Bounds *)

MaxExt == 2      \* longest self.extensions explored
MaxCpus == 2     \* largest CPU count the probing utility reports

----------------------------------------------------------------------------
(* Optional values and strings *)

None == <<>>
Some(v) == <<v>>
Value(o) == o[1]

\* Python truthiness of an optional string: neither None nor "".
Truthy(o) == o # None /\ Value(o) # ""

StartsWith(s, p) == Len(s) >= Len(p) /\ SubSeq(s, 1, Len(p)) = p

Contains(s, sub) ==
    \E i \in 1..(Len(s) + 1) :
        i + Len(sub) - 1 <= Len(s) /\ SubSeq(s, i, i + Len(sub) - 1) = sub

Whitespace == {" ", "\n", "\t", "\r"}

RECURSIVE LStrip(_)
LStrip(s) ==
    IF Len(s) > 0 /\ SubSeq(s, 1, 1) \in Whitespace
    THEN LStrip(SubSeq(s, 2, Len(s)))
    ELSE s

RECURSIVE RStrip(_)
RStrip(s) ==
    IF Len(s) > 0 /\ SubSeq(s, Len(s), Len(s)) \in Whitespace
    THEN RStrip(SubSeq(s, 1, Len(s) - 1))
    ELSE s

\* bytes.strip()
Strip(s) == LStrip(RStrip(s))

DigitChars == <<"0", "1", "2", "3", "4", "5", "6", "7", "8", "9">>

\* Decimal text of a natural number, as the probing utilities print it.
RECURSIVE IntStr(_)
IntStr(n) ==
    IF n < 10 THEN DigitChars[n + 1]
    ELSE IntStr(n \div 10) \o DigitChars[(n % 10) + 1]

\* sep.join(seq)
RECURSIVE Join(_, _)
Join(sep, seq) ==
    IF seq = <<>> THEN ""
    ELSE IF Len(seq) = 1 THEN seq[1]
    ELSE seq[1] \o sep \o Join(sep, Tail(seq))

LowerChars == <<"a", "b", "c", "d", "e", "g", "l", "r", "s", "u">>
UpperChars == <<"A", "B", "C", "D", "E", "G", "L", "R", "S", "U">>

UpperChar(c) ==
    IF \E i \in 1..Len(LowerChars) : LowerChars[i] = c
    THEN UpperChars[CHOOSE i \in 1..Len(LowerChars) : LowerChars[i] = c]
    ELSE c

\* str.upper()
RECURSIVE Upper(_)
Upper(s) ==
    IF Len(s) = 0 THEN ""
    ELSE UpperChar(SubSeq(s, 1, 1)) \o Upper(SubSeq(s, 2, Len(s)))

----------------------------------------------------------------------------
(* The host and the invocation *)

Platforms == {"Linux", "Darwin", "Windows", "FreeBSD"}

EnvNames == {"QULACS_OPT_FLAGS", "USE_GPU", "USE_OMP", "C_COMPILER",
             "CXX_COMPILER", "CXXFLAGS"}

VERSION == "0.2.0"

Cwd == "/w"                          \* os.getcwd()
Executable == "/usr/bin/python3"     \* sys.executable
BuildTemp == "/w/build/temp"         \* self.build_temp
BuildLib == "/w/build/lib"           \* directory of get_ext_fullpath(name)

\* self.extensions of length n: the declared target first.
ExtName(i) == IF i = 1 THEN "qulacs_core" ELSE "ext" \o IntStr(i)
ExtList(n) == [i \in 1..n |-> ExtName(i)]

\* os.getenv(name)
Getenv(name) == environ[name]

\* Variant: os.getenv(name) or default, which also replaces an empty value.
GetenvOrDefault(name, default) ==
    IF Truthy(environ[name]) THEN environ[name] ELSE Some(default)

\* os.getenv(name, default)
GetenvDefault(name, default) ==
    IF environ[name] = None THEN Some(default) ELSE environ[name]

NoError == [type |-> "", step |-> "", msg |-> "", returncode |-> 0]
Raise(t, s, m, rc) == [type |-> t, step |-> s, msg |-> m, returncode |-> rc]

----------------------------------------------------------------------------
(* Subprocesses *)

ExitCodes == {0, 1, 2}

\* Subclasses of OSError raised when a command cannot be spawned.
OSErrors == {"FileNotFoundError", "PermissionError"}

Exited(rc, out) == [exc |-> "", rc |-> rc, output |-> out]
NotSpawned(e) == [exc |-> e, rc |-> 0, output |-> ""]

\* Outcomes of spawning cmake: it exits with some code, or cannot be spawned.
CMakeOutcomes ==
    {Exited(rc, "") : rc \in ExitCodes} \cup {NotSpawned(e) : e \in OSErrors}

\* Outcomes of spawning the CPU-count command.  The empty command name
\* cannot be executed (PermissionError); a utility prints its count and a
\* newline, exits non-zero, or cannot be spawned.
ProbeOutcomes(command) ==
    IF command[1] = ""
    THEN {NotSpawned("PermissionError")}
    ELSE {Exited(0, IntStr(n) \o "\n") : n \in 1..MaxCpus}
         \cup {Exited(rc, "") : rc \in ExitCodes \ {0}}
         \cup {NotSpawned(e) : e \in OSErrors}

\* Variant: the exit code is not checked (subprocess.call).
CheckIgnoresExit(o) == FALSE

\* subprocess.check_output / check_call raise CalledProcessError on a
\* non-zero exit code.
CheckRaises(o) == o.exc = "" /\ o.rc # 0

\* One spawned subprocess: its argument vector, the cwd= and env= keywords
\* (None when the child inherits them) and how it ended.
Call(kind, argv, cwd, env, o) ==
    [kind |-> kind, ext |-> idx, argv |-> argv, cwd |-> cwd, env |-> env,
     exc |-> o.exc, rc |-> o.rc, output |-> o.output]

Succeeded(c) == c.exc = "" /\ c.rc = 0

----------------------------------------------------------------------------
(* _get_n_cpus *)

ProbeCommand(platform_name) ==
    IF platform_name = "Linux" THEN <<"nproc">>
    ELSE IF platform_name = "Darwin" THEN <<"sysctl", "-n", "hw.ncpu">>
    ELSE <<"">>

\* The except clause of _get_n_cpus.
ProbeCaught(exc) == exc = "PermissionError"

\* TRUE when _get_n_cpus ends by raising on outcome o.
GetNCpusRaises(o) ==
    \/ o.exc # "" /\ ~ProbeCaught(o.exc)
    \/ CheckRaises(o)

\* The value _get_n_cpus returns on outcome o (when it does not raise).
GetNCpusValue(o) == IF o.exc = "" THEN Strip(o.output) ELSE ""

----------------------------------------------------------------------------
(* Filesystem *)

\* Position of the last "/" of p at or before position k (0 when none).
RECURSIVE LastSlash(_, _)
LastSlash(p, k) ==
    IF k = 0 THEN 0
    ELSE IF SubSeq(p, k, k) = "/" THEN k
    ELSE LastSlash(p, k - 1)

\* os.path.dirname of an absolute path: the text before its last "/".
Dirname(p) ==
    IF LastSlash(p, Len(p)) <= 1 THEN "/"
    ELSE SubSeq(p, 1, LastSlash(p, Len(p)) - 1)

RECURSIVE Ancestors(_)
Ancestors(p) == IF p = "/" THEN {"/"} ELSE {p} \cup Ancestors(Dirname(p))

\* os.path.join(a, b) for a relative b.
PathJoin(a, b) == a \o "/" \o b

\* Directories existing after os.makedirs(p): p and its missing parents.
Makedirs(dirs, p) == dirs \cup Ancestors(p)

ArchiveDir == PathJoin(Cwd, "lib")
ExtDir(name) == BuildLib
BinDir == PathJoin(Cwd, "bin")
BuildDir == PathJoin(Cwd, "build")
SourceDir == Cwd                     \* ext.sourcedir = os.path.abspath("")

OutputDirs(name) == {ArchiveDir, ExtDir(name), BinDir}

\* Variant: build_temp is never made.
AfterMakeTempSkipped(dirs) == dirs

\* Lines 87-88: if not os.path.exists(build_temp): os.makedirs(build_temp)
AfterMakeTemp(dirs) ==
    IF BuildTemp \notin dirs THEN Makedirs(dirs, BuildTemp) ELSE dirs

\* Line 91: os.makedirs(build_dir, exist_ok=True)
AfterMakeBuild(dirs) == Makedirs(dirs, BuildDir)

----------------------------------------------------------------------------
(* _generate_args and the option handling of build_extension *)

\* Variant: the debug flag is not consulted.
CfgAlwaysRelease == "Release"

Cfg == IF debug THEN "Debug" ELSE "Release"

\* Variant: the argument list is one list shared by all calls (a class
\* attribute extended in place), so a later target starts from the tokens
\* handed to the configure step of the target before it.
BaseCMakeArgsShared(name) ==
    LET prev == {i \in DOMAIN calls : calls[i].kind = "configure"}
        last == CHOOSE i \in prev : \A j \in prev : j <= i
    IN IF prev = {}
       THEN << "-DCMAKE_ARCHIVE_OUTPUT_DIRECTORY=" \o ArchiveDir,
               "-DCMAKE_LIBRARY_OUTPUT_DIRECTORY=" \o ExtDir(name),
               "-DCMAKE_RUNTIME_OUTPUT_DIRECTORY=" \o BinDir,
               "-DPYTHON_EXECUTABLE=" \o Executable,
               "-DPYTHON_SETUP_FLAG:STR=Yes",
               "-DUSE_GPU:STR=No" >>
       ELSE SubSeq(calls[last].argv, 3, Len(calls[last].argv))

\* Variant: the fixed arguments also carry a default for USE_OMP.
BaseCMakeArgsOmpDefault(name) ==
    << "-DCMAKE_ARCHIVE_OUTPUT_DIRECTORY=" \o ArchiveDir,
       "-DCMAKE_LIBRARY_OUTPUT_DIRECTORY=" \o ExtDir(name),
       "-DCMAKE_RUNTIME_OUTPUT_DIRECTORY=" \o BinDir,
       "-DPYTHON_EXECUTABLE=" \o Executable,
       "-DPYTHON_SETUP_FLAG:STR=Yes",
       "-DUSE_GPU:STR=No",
       "-DUSE_OMP:STR=No" >>

BaseCMakeArgs(name) ==
    << "-DCMAKE_ARCHIVE_OUTPUT_DIRECTORY=" \o ArchiveDir,
       "-DCMAKE_LIBRARY_OUTPUT_DIRECTORY=" \o ExtDir(name),
       "-DCMAKE_RUNTIME_OUTPUT_DIRECTORY=" \o BinDir,
       "-DPYTHON_EXECUTABLE=" \o Executable,
       "-DPYTHON_SETUP_FLAG:STR=Yes",
       "-DUSE_GPU:STR=No" >>

\* Variant: the architecture is requested without testing sys.maxsize.
WindowsCMakeArgsAlwaysX64(name) ==
    << "-DCMAKE_LIBRARY_OUTPUT_DIRECTORY_" \o Upper(Cfg) \o "=" \o ExtDir(name),
       "-DCMAKE_RUNTIME_OUTPUT_DIRECTORY_" \o Upper(Cfg) \o "=" \o ExtDir(name),
       "-A", "x64" >>

WindowsCMakeArgs(name) ==
    << "-DCMAKE_LIBRARY_OUTPUT_DIRECTORY_" \o Upper(Cfg) \o "=" \o ExtDir(name),
       "-DCMAKE_RUNTIME_OUTPUT_DIRECTORY_" \o Upper(Cfg) \o "=" \o ExtDir(name) >>
    \o (IF maxsize64 THEN <<"-A", "x64">> ELSE <<>>)

Gcc == GetenvDefault("C_COMPILER", "gcc")
Gxx == GetenvDefault("CXX_COMPILER", "g++")

\* The guard of the RuntimeError of _generate_args.
CompilerUnresolved == Gcc = None \/ Gxx = None

CompilerMessage ==
    "gcc/g++ must be installed to build the following extensions: "
        \o Join(", ", extensions)

PosixCMakeArgs ==
    << "-DCMAKE_C_COMPILER=" \o Value(Gcc),
       "-DCMAKE_CXX_COMPILER=" \o Value(Gxx),
       "-DCMAKE_BUILD_TYPE=" \o Cfg >>

\* Variant: the explicit option is tested for truthiness, so an empty value
\* falls back to the environment.
ResolvedOptFlagsFallback ==
    IF Truthy(opt_flags) THEN opt_flags
    ELSE IF Truthy(Getenv("QULACS_OPT_FLAGS")) THEN Getenv("QULACS_OPT_FLAGS")
    ELSE None

\* Variant: the environment value is consulted first.
ResolvedOptFlagsEnvFirst ==
    IF Truthy(Getenv("QULACS_OPT_FLAGS")) THEN Getenv("QULACS_OPT_FLAGS")
    ELSE opt_flags

\* The local opt_flags of build_extension.
ResolvedOptFlags ==
    IF opt_flags # None THEN opt_flags
    ELSE IF Truthy(Getenv("QULACS_OPT_FLAGS")) THEN Getenv("QULACS_OPT_FLAGS")
    ELSE None

OptFlagsArgs ==
    IF Truthy(ResolvedOptFlags)
    THEN <<"-DOPT_FLAGS=" \o Value(ResolvedOptFlags)>>
    ELSE <<>>

\* Variant: the value is tested with "is not None" instead of truthiness.
GpuArgsIfSet ==
    IF Getenv("USE_GPU") # None
    THEN <<"-DUSE_GPU:STR=" \o Value(Getenv("USE_GPU"))>>
    ELSE <<>>

GpuArgs ==
    IF Truthy(Getenv("USE_GPU"))
    THEN <<"-DUSE_GPU:STR=" \o Value(Getenv("USE_GPU"))>>
    ELSE <<>>

OmpArgs ==
    IF Truthy(Getenv("USE_OMP"))
    THEN <<"-DUSE_OMP:STR=" \o Value(Getenv("USE_OMP"))>>
    ELSE <<>>

\* env["CXXFLAGS"] handed to the configure step.
CxxFlags ==
    (IF Getenv("CXXFLAGS") = None THEN "" ELSE Value(Getenv("CXXFLAGS")))
        \o " -DVERSION_INFO=\\\"" \o VERSION \o "\\\""

\* Variant: the message names the first extension only.
ToolMessageFirstOnly ==
    "CMake must be installed to build the following extensions: "
        \o extensions[1]

ToolMessage ==
    "CMake must be installed to build the following extensions: "
        \o Join(", ", extensions)

\* Variant: a failed step sends the target back to its configure step.
PropagateRetry == "configure"

\* Variant: the loop of run swallows the exception and goes on (best effort).
PropagateBestEffort == "for_ext"

\* An exception raised inside build_extension is caught nowhere in run: it
\* leaves the for loop and ends the run.
Propagate == "Failed"

----------------------------------------------------------------------------
(* Actions *)

\* run, lines 54-60: the tool-availability check.
CheckCMake ==
    /\ pc = "run"
    /\ \E o \in CMakeOutcomes :
        /\ calls' = Append(calls, Call("tool_check", <<"cmake", "--version">>, None, None, o))
        /\ IF o.exc \in OSErrors
           THEN /\ pc' = "Failed"
                /\ error' = Raise("RuntimeError", "tool_check", ToolMessage, 0)
           ELSE IF CheckRaises(o)
           THEN /\ pc' = "Failed"
                /\ error' = Raise("CalledProcessError", "tool_check", "", o.rc)
           ELSE /\ pc' = "for_ext"
                /\ error' = error
    /\ UNCHANGED <<hostvars, idx, cmake_args, build_args, fs, made>>

\* Variant: the loop body returns (return self.build_extension(ext)), so
\* run ends after the first extension.
ForExtReturnsAfterFirst ==
    /\ pc = "for_ext"
    /\ IF idx < Len(extensions) /\ idx < 1
       THEN idx' = idx + 1 /\ pc' = "generate_args"
       ELSE idx' = idx /\ pc' = "Finished"
    /\ UNCHANGED <<hostvars, cmake_args, build_args, fs, made, calls, error>>

\* run, lines 62-63: the for loop takes the next extension, or ends.
ForExt ==
    /\ pc = "for_ext"
    /\ IF idx < Len(extensions)
       THEN idx' = idx + 1 /\ pc' = "generate_args"
       ELSE idx' = idx /\ pc' = "Finished"
    /\ UNCHANGED <<hostvars, cmake_args, build_args, fs, made, calls, error>>

\* Variant: the platform name is compared with the wrong spelling, so a
\* Windows host takes the branch of the other platforms.
GenerateArgsMisspelt ==
    /\ pc = "generate_args"
    /\ IF platform_system = "windows"
       THEN /\ cmake_args' = BaseCMakeArgs(extensions[idx])
                                \o WindowsCMakeArgs(extensions[idx])
            /\ build_args' = <<"--config", Cfg, "--", "/m">>
            /\ pc' = "opt_flags"
            /\ error' = error
       ELSE /\ cmake_args' = BaseCMakeArgs(extensions[idx]) \o PosixCMakeArgs
            /\ build_args' = <<"--config", Cfg>>
            /\ pc' = "get_n_cpus"
            /\ error' = error
    /\ UNCHANGED <<hostvars, idx, fs, made, calls>>

\* _generate_args, lines 99-138, up to the call of _get_n_cpus.
GenerateArgs ==
    /\ pc = "generate_args"
    /\ IF platform_system = "Windows"
       THEN /\ cmake_args' = BaseCMakeArgs(extensions[idx])
                                \o WindowsCMakeArgs(extensions[idx])
            /\ build_args' = <<"--config", Cfg, "--", "/m">>
            /\ pc' = "opt_flags"
            /\ error' = error
       ELSE IF CompilerUnresolved
       THEN /\ pc' = Propagate
            /\ error' = Raise("RuntimeError", "generate_args", CompilerMessage, 0)
            /\ UNCHANGED <<cmake_args, build_args>>
       ELSE /\ cmake_args' = BaseCMakeArgs(extensions[idx]) \o PosixCMakeArgs
            /\ build_args' = <<"--config", Cfg>>
            /\ pc' = "get_n_cpus"
            /\ error' = error
    /\ UNCHANGED <<hostvars, idx, fs, made, calls>>

\* _get_n_cpus (lines 13-32) and the end of _generate_args (lines 140-143).
GetNCpus ==
    /\ pc = "get_n_cpus"
    /\ \E o \in ProbeOutcomes(ProbeCommand(platform_system)) :
        /\ calls' = Append(calls, Call("probe", ProbeCommand(platform_system),
                                  None, None, o))
        /\ IF GetNCpusRaises(o)
           THEN /\ pc' = Propagate
                /\ error' = Raise(IF o.exc # "" THEN o.exc ELSE "CalledProcessError",
                                   "probe", "", o.rc)
                /\ UNCHANGED build_args
           ELSE /\ build_args' = build_args \o <<"--", "-j" \o GetNCpusValue(o)>>
                /\ pc' = "opt_flags"
                /\ error' = error
    /\ UNCHANGED <<hostvars, idx, cmake_args, fs, made>>

\* build_extension, lines 68-81: optimization and backend flags.
AppendOptions ==
    /\ pc = "opt_flags"
    /\ cmake_args' = cmake_args \o OptFlagsArgs \o GpuArgs \o OmpArgs
    /\ pc' = "makedirs"
    /\ UNCHANGED <<hostvars, idx, build_args, fs, made, calls, error>>

\* build_extension, lines 87-91: the two directories the orchestrator makes.
\* Either os.makedirs may fail with an OSError.
MakeDirs ==
    /\ pc = "makedirs"
    /\ LET need == BuildTemp \notin fs
           fs1 == AfterMakeTemp(fs)
           made1 == IF need THEN made \cup {BuildTemp} ELSE made
       IN \/ /\ fs' = AfterMakeBuild(fs1)
             /\ made' = made1 \cup {BuildDir}
             /\ pc' = "configure"
             /\ error' = error
          \/ /\ need
             /\ pc' = Propagate
             /\ error' = Raise("OSError", "makedirs", BuildTemp, 0)
             /\ UNCHANGED <<fs, made>>
          \/ /\ fs' = fs1
             /\ made' = made1
             /\ pc' = Propagate
             /\ error' = Raise("OSError", "makedirs", BuildDir, 0)
    /\ UNCHANGED <<hostvars, idx, cmake_args, build_args, calls>>

\* build_extension, lines 92-94: the configure step.
Configure ==
    /\ pc = "configure"
    /\ \E rc \in ExitCodes :
        LET o == Exited(rc, "") IN
        /\ calls' = Append(calls,
                           Call("configure", <<"cmake", SourceDir>> \o cmake_args,
                                Some(BuildDir), Some(CxxFlags), o))
        /\ IF CheckRaises(o)
           THEN /\ pc' = Propagate
                /\ error' = Raise("CalledProcessError", "configure", "", rc)
           ELSE /\ pc' = "build"
                /\ error' = error
    /\ UNCHANGED <<hostvars, idx, cmake_args, build_args, fs, made>>

\* build_extension, lines 95-97: the build step; on success the call returns
\* to the for loop of run and its locals are gone.
Build ==
    /\ pc = "build"
    /\ \E rc \in ExitCodes :
        LET o == Exited(rc, "") IN
        /\ calls' = Append(calls,
                           Call("build",
                                <<"cmake", "--build", ".", "--target", "python">>
                                    \o build_args,
                                Some(BuildDir), None, o))
        /\ IF CheckRaises(o)
           THEN /\ pc' = Propagate
                /\ error' = Raise("CalledProcessError", "build", "", rc)
                /\ UNCHANGED <<cmake_args, build_args>>
           ELSE /\ pc' = "for_ext"
                /\ error' = error
                /\ cmake_args' = <<>>
                /\ build_args' = <<>>
    /\ UNCHANGED <<hostvars, idx, fs, made>>

Next ==
    \/ CheckCMake
    \/ ForExt
    \/ GenerateArgs
    \/ GetNCpus
    \/ AppendOptions
    \/ MakeDirs
    \/ Configure
    \/ Build

----------------------------------------------------------------------------
(* Initial states *)

Opt(S) == {None} \cup {Some(v) : v \in S}

\* Directory trees the run may start in: the working directory exists, and
\* a directory exists only with its parent.
InitialTrees ==
    {Ancestors(Cwd) \cup S :
        S \in {T \in SUBSET {BuildDir, BuildTemp, BuildLib, ArchiveDir, BinDir} :
                   \A d \in T : Dirname(d) \in T \cup Ancestors(Cwd)}}

InitRun ==
    /\ pc = "run"
    /\ idx = 0
    /\ cmake_args = <<>>
    /\ build_args = <<>>
    /\ made = {}
    /\ calls = <<>>
    /\ error = NoError

\* Orchestration: several targets and directory trees, a few option values.
Init ==
    /\ platform_system \in Platforms
    /\ maxsize64 \in BOOLEAN
    /\ debug \in BOOLEAN
    /\ opt_flags = None
    /\ environ \in [EnvNames -> Opt({"", "Yes"})]
    /\ environ["QULACS_OPT_FLAGS"] = None
    /\ environ["USE_OMP"] = None
    /\ environ["CXX_COMPILER"] = None
    /\ environ["CXXFLAGS"] = None
    /\ environ["USE_GPU"] # Some("")
    /\ environ["C_COMPILER"] # Some("Yes")
    /\ \E n \in 1..MaxExt : extensions = ExtList(n)
    /\ fs \in InitialTrees
    /\ InitRun

Spec == Init /\ [][Next]_vars

\* The interpreter is sequential and always takes its next step, and every
\* spawned subprocess returns.
FairSpec == Spec /\ WF_vars(Next)

\* Argument building: one target, every combination of options and
\* environment values.
InitArgs ==
    /\ platform_system \in Platforms
    /\ maxsize64 \in BOOLEAN
    /\ debug \in BOOLEAN
    /\ opt_flags \in Opt({"", "-O2"})
    /\ environ \in [EnvNames -> Opt({"", "-O3", "Yes", "No", "clang", "clang++"})]
    /\ environ["QULACS_OPT_FLAGS"] \in Opt({"", "-O3"})
    /\ environ["USE_GPU"] \in Opt({"", "Yes", "No"})
    /\ environ["USE_OMP"] \in Opt({"", "Yes"})
    /\ environ["C_COMPILER"] \in Opt({"", "clang"})
    /\ environ["CXX_COMPILER"] \in Opt({"", "clang++"})
    /\ environ["CXXFLAGS"] = None
    /\ extensions = ExtList(1)
    /\ fs = Ancestors(Cwd)
    /\ InitRun

SpecArgs == InitArgs /\ [][Next]_vars

----------------------------------------------------------------------------
(* Properties *)

LastCall == calls[Len(calls)]

IsStep(c) == c.kind \in {"configure", "build"}

\* C1: when the tool check (cmake --version) fails with an OSError, the run
\* has failed with a RuntimeError whose message names every extension of
\* self.extensions, the tool check is the only subprocess ever spawned (no
\* probe, configure or build), and no target was entered.
C1_ToolUnavailableFailsFast ==
    (Len(calls) >= 1 /\ calls[1].kind = "tool_check" /\ calls[1].exc \in OSErrors)
    => /\ pc = "Failed"
       /\ error.type = "RuntimeError"
       /\ error.step = "tool_check"
       /\ \A i \in DOMAIN extensions : Contains(error.msg, extensions[i])
       /\ Len(calls) = 1
       /\ idx = 0

C1_Witness ==
    /\ pc = "Failed"
    /\ Len(calls) = 1
    /\ calls[1].exc = "FileNotFoundError"
    /\ Len(extensions) >= 2

\* C2: a build call of a target is preceded by a configure call of the same
\* target that exited with code 0; a configure call that exited non-zero is
\* followed by no build call of that target and has ended the run with a
\* CalledProcessError carrying that exit code.
C2_BuildOnlyAfterConfigureSucceeded ==
    \A i \in DOMAIN calls :
        /\ calls[i].kind = "build"
           => \E j \in 1..(i - 1) :
                 /\ calls[j].kind = "configure"
                 /\ calls[j].ext = calls[i].ext
                 /\ Succeeded(calls[j])
        /\ (calls[i].kind = "configure" /\ ~Succeeded(calls[i]))
           => /\ \A j \in DOMAIN calls :
                    ~(calls[j].kind = "build" /\ calls[j].ext = calls[i].ext)
              /\ pc = "Failed"
              /\ error.type = "CalledProcessError"
              /\ error.step = "configure"
              /\ error.returncode = calls[i].rc

C2_Witness ==
    /\ \E i \in DOMAIN calls : calls[i].kind = "build" /\ calls[i].ext = 1
    /\ \E j \in DOMAIN calls :
          calls[j].kind = "configure" /\ calls[j].ext = 2 /\ calls[j].rc = 2

\* C3: subprocesses are spawned target by target in the order of
\* self.extensions; the configure call of a target comes after a build call
\* with exit code 0 of every earlier target; a failed configure or build call
\* is the last subprocess of the run, which has failed, so nothing is spawned
\* for a later target.
C3_SequentialFailFast ==
    /\ \A i, j \in DOMAIN calls : i < j => calls[i].ext <= calls[j].ext
    /\ \A i \in DOMAIN calls :
          calls[i].kind = "configure"
          => \A e \in 1..(calls[i].ext - 1) :
                \E j \in 1..(i - 1) :
                   /\ calls[j].kind = "build"
                   /\ calls[j].ext = e
                   /\ Succeeded(calls[j])
    /\ \A i \in DOMAIN calls :
          (IsStep(calls[i]) /\ ~Succeeded(calls[i]))
          => /\ i = Len(calls)
             /\ pc = "Failed"
             /\ \A j \in DOMAIN calls : calls[j].ext <= calls[i].ext

C3_Witness ==
    /\ Len(extensions) >= 2
    /\ pc = "Failed"
    /\ idx = 1
    /\ LastCall.kind = "build"
    /\ LastCall.rc = 1

----------------------------------------------------------------------------
(* Tokens of an argument list *)

ConfigureCalls == {i \in DOMAIN calls : calls[i].kind = "configure"}

\* The text of tok after the prefix p.
Suffix(tok, p) == SubSeq(tok, Len(p) + 1, Len(tok))

\* Positions of the tokens of argv that start with p.
Positions(argv, p) == {k \in DOMAIN argv : StartsWith(argv[k], p)}

\* A cache definition -D<key>[:<type>]=<value>.
IsDefine(tok) == StartsWith(tok, "-D")

RECURSIVE IndexOf(_, _, _)
IndexOf(tok, chars, k) ==
    IF k > Len(tok) THEN k
    ELSE IF SubSeq(tok, k, k) \in chars THEN k
    ELSE IndexOf(tok, chars, k + 1)

DefKey(tok) == SubSeq(tok, 3, IndexOf(tok, {":", "="}, 3) - 1)
DefValue(tok) == SubSeq(tok, IndexOf(tok, {"="}, 3) + 1, Len(tok))

\* The definitions of argv, as pairs <<position, key>>.
Keys(argv) ==
    {<<k, DefKey(argv[k])>> : k \in {j \in DOMAIN argv : IsDefine(argv[j])}}

OutputDirFlags ==
    {"-DCMAKE_ARCHIVE_OUTPUT_DIRECTORY=", "-DCMAKE_LIBRARY_OUTPUT_DIRECTORY=",
     "-DCMAKE_RUNTIME_OUTPUT_DIRECTORY="}

\* The output directories an argument list names.
NamedOutputDirs(argv) ==
    UNION {{Suffix(argv[k], p) : k \in Positions(argv, p)} : p \in OutputDirFlags}

----------------------------------------------------------------------------
(* Properties of the probe and of the argument lists *)

IsCount(v) == \E n \in 1..MaxCpus : v = IntStr(n)

\* C4: _get_n_cpus never raises: no run ends with an exception raised by the
\* probe, and the value it returned (the text after -j) is the empty string
\* or a positive count.
C4_GetNCpusNeverRaises ==
    /\ error.step # "probe"
    /\ (Len(calls) > 0 /\ LastCall.kind = "probe" /\ Len(build_args) = 4)
       => \/ Suffix(build_args[4], "-j") = ""
          \/ IsCount(Suffix(build_args[4], "-j"))

\* C5: on a non-Windows host, once the probe has been attempted the build
\* arguments end with the parallelism token: exactly -j when probing failed
\* or the platform has no probing command, -j followed by the printed count
\* when it succeeded.
C5_ParallelismToken ==
    (Len(calls) > 0 /\ LastCall.kind = "probe")
    => /\ Len(build_args) = 4
       /\ build_args[3] = "--"
       /\ IF Succeeded(LastCall)
          THEN \E n \in 1..MaxCpus :
                  /\ LastCall.output = IntStr(n) \o "\n"
                  /\ build_args[4] = "-j" \o IntStr(n)
          ELSE build_args[4] = "-j"

\* C6: on a non-Windows host with an empty C or C++ compiler value,
\* _generate_args raises, no probe, configure or build subprocess is spawned,
\* and no configure call carries a compiler definition with an empty value.
C6_EmptyCompilerIsFatal ==
    /\ (platform_system # "Windows" /\ (Gcc = Some("") \/ Gxx = Some("")))
       => /\ \A i \in DOMAIN calls : calls[i].kind = "tool_check"
          /\ pc \in {"run", "for_ext", "generate_args", "Failed", "Finished"}
          /\ (pc = "Failed" /\ idx >= 1) => error.step = "generate_args"
    /\ \A i \in ConfigureCalls : \A k \in DOMAIN calls[i].argv :
          calls[i].argv[k] \notin {"-DCMAKE_C_COMPILER=", "-DCMAKE_CXX_COMPILER="}

\* C7 (as claimed): in every configure call no two definitions of the same
\* key carry different values, and the key USE_GPU appears at most once.
C7_NoKeyTwice ==
    \A i \in ConfigureCalls :
        LET a == calls[i].argv
            ks == Keys(a)
        IN
        /\ \A x, y \in ks :
              x[2] = y[2] => DefValue(a[x[1]]) = DefValue(a[y[1]])
        /\ Cardinality({x \in ks : x[2] = "USE_GPU"}) <= 1

\* C7 (amended): in every configure call every key other than USE_GPU is
\* defined at most once; USE_GPU is defined once, as the default No, when
\* the USE_GPU environment value is unset or empty, and twice otherwise: the
\* default No first and the environment value after it.
C7_OnlyUseGpuRepeated ==
    \A i \in ConfigureCalls :
        LET a == calls[i].argv
            ks == Keys(a)
            gpu == {x \in ks : x[2] = "USE_GPU"}
        IN
        /\ \A x, y \in ks : (x # y /\ x[2] = y[2]) => x[2] = "USE_GPU"
        /\ IF Truthy(Getenv("USE_GPU"))
           THEN /\ Cardinality(gpu) = 2
                /\ \E x, y \in gpu :
                      /\ x[1] < y[1]
                      /\ DefValue(a[x[1]]) = "No"
                      /\ DefValue(a[y[1]]) = Value(Getenv("USE_GPU"))
           ELSE /\ Cardinality(gpu) = 1
                /\ \A x \in gpu : DefValue(a[x[1]]) = "No"

C7_Witness ==
    /\ ConfigureCalls # {}
    /\ Getenv("USE_GPU") = Some("Yes")
    /\ Getenv("USE_OMP") = Some("Yes")
    /\ opt_flags = Some("-O2")
    /\ Getenv("QULACS_OPT_FLAGS") = Some("-O3")

\* C8 (as claimed): a USE_GPU definition appears in a configure call only
\* when the USE_GPU environment value is set, and carries it; likewise
\* USE_OMP; with neither set there is no backend definition.
C8_BackendOnlyIfSet ==
    \A i \in ConfigureCalls :
        LET a == calls[i].argv
            ks == Keys(a)
        IN
        \A x \in ks :
            x[2] \in {"USE_GPU", "USE_OMP"}
            => /\ Getenv(x[2]) # None
               /\ DefValue(a[x[1]]) = Value(Getenv(x[2]))

\* C8 (amended): the first USE_GPU definition of every configure call is the
\* default -DUSE_GPU:STR=No, whatever the environment holds; a further
\* USE_GPU definition, and a USE_OMP definition, appears exactly when the
\* environment value of that name is set and non-empty, and it is
\* -D<name>:STR= followed by that value verbatim.
C8_BackendFlags ==
    \A i \in ConfigureCalls :
        LET a == calls[i].argv
            ks == Keys(a)
            gpu == {x \in ks : x[2] = "USE_GPU"}
            first == {x \in gpu : \A y \in gpu : x[1] <= y[1]}
            extra(key) == {x \in ks : x[2] = key} \ first
        IN
        /\ Cardinality(first) = 1
        /\ \A x \in first : a[x[1]] = "-DUSE_GPU:STR=No"
        /\ \A key \in {"USE_GPU", "USE_OMP"} :
              IF Truthy(Getenv(key))
              THEN /\ Cardinality(extra(key)) = 1
                   /\ \A x \in extra(key) :
                         a[x[1]] = "-D" \o key \o ":STR=" \o Value(Getenv(key))
              ELSE extra(key) = {}

C8_Witness ==
    /\ ConfigureCalls # {}
    /\ Getenv("USE_GPU") = Some("")
    /\ Getenv("USE_OMP") = None

\* C9: in every configure call there is at most one -DOPT_FLAGS= token.  With
\* the explicit option given, a token carries the explicit value, whatever
\* QULACS_OPT_FLAGS holds, and is present whenever that value is non-empty;
\* with no explicit option and a non-empty QULACS_OPT_FLAGS the token is
\* present and carries the environment value; with neither there is none.
C9_OptFlagsPrecedence ==
    \A i \in ConfigureCalls :
        LET a == calls[i].argv
            opt == Positions(a, "-DOPT_FLAGS=")
            env == Getenv("QULACS_OPT_FLAGS")
        IN
        /\ Cardinality(opt) <= 1
        /\ opt_flags # None
           => /\ \A k \in opt : Suffix(a[k], "-DOPT_FLAGS=") = Value(opt_flags)
              /\ Value(opt_flags) # "" => opt # {}
        /\ (opt_flags = None /\ Truthy(env))
           => /\ opt # {}
              /\ \A k \in opt : Suffix(a[k], "-DOPT_FLAGS=") = Value(env)
        /\ (opt_flags = None /\ ~Truthy(env)) => opt = {}

C9_Witness ==
    /\ ConfigureCalls # {}
    /\ opt_flags = Some("-O2")
    /\ Getenv("QULACS_OPT_FLAGS") = Some("-O3")
    /\ \E k \in DOMAIN LastCall.argv : LastCall.argv[k] = "-DOPT_FLAGS=-O2"

\* C10 (as claimed): when the configure subprocess is invoked, every output
\* directory named in its arguments exists.
C10_OutputDirsExistAtConfigure ==
    (Len(calls) > 0 /\ LastCall.kind = "configure")
    => NamedOutputDirs(LastCall.argv) \subseteq fs

\* C10 (amended): when the configure or the build subprocess is invoked, the
\* build directory it runs in and the build-temp directory exist; the only
\* directories the run makes are these two, never an output directory named
\* in the configure arguments; the build step runs in the directory of the
\* configure step, and the argument list naming the output directories is
\* unchanged when the build step starts.
C10_WorkDirsMadeOutputDirsNot ==
    /\ \A i \in DOMAIN calls :
          IsStep(calls[i])
          => /\ calls[i].cwd # None
             /\ Value(calls[i].cwd) \in fs
             /\ BuildTemp \in fs
    /\ made \subseteq {BuildTemp, BuildDir}
    /\ \A i \in ConfigureCalls :
          /\ Cardinality(NamedOutputDirs(calls[i].argv)) = 3
          /\ NamedOutputDirs(calls[i].argv) \cap made = {}
    /\ \A i \in DOMAIN calls :
          calls[i].kind = "build"
          => /\ calls[i - 1].kind = "configure"
             /\ calls[i - 1].ext = calls[i].ext
             /\ calls[i - 1].cwd = calls[i].cwd
    /\ pc = "build"
       => /\ LastCall.kind = "configure"
          /\ LastCall.argv = <<"cmake", SourceDir>> \o cmake_args

C10_Witness ==
    /\ Len(calls) > 0
    /\ LastCall.kind = "build"
    /\ made = {BuildTemp, BuildDir}
    /\ NamedOutputDirs(calls[Len(calls) - 1].argv) \cap fs = {}

----------------------------------------------------------------------------
(* Properties of the platform-dependent arguments *)

BuildCalls == {i \in DOMAIN calls : calls[i].kind = "build"}

\* Positions of the tokens of argv equal to tok.
Occurrences(argv, tok) == {k \in DOMAIN argv : argv[k] = tok}

\* C11: on a Windows host with sys.maxsize > 2 ** 32 every configure call
\* carries the token -A exactly once, followed by x64, which also occurs
\* once; on a 32-bit Windows host and on every other host no configure call
\* carries -A or x64.
C11_ArchitectureFlag ==
    \A i \in ConfigureCalls :
        LET a == calls[i].argv IN
        IF platform_system = "Windows" /\ maxsize64
        THEN /\ Cardinality(Occurrences(a, "-A")) = 1
             /\ Cardinality(Occurrences(a, "x64")) = 1
             /\ \A k \in Occurrences(a, "-A") : k < Len(a) /\ a[k + 1] = "x64"
        ELSE Occurrences(a, "-A") = {} /\ Occurrences(a, "x64") = {}

C11_Witness ==
    /\ ConfigureCalls # {}
    /\ platform_system = "Windows"
    /\ maxsize64
    /\ Getenv("USE_GPU") = Some("Yes")

\* C12: the configuration name is Debug when debug is true and Release when
\* it is false, in every call of every target: each build call carries
\* --config followed by that name once; on a non-Windows host each configure
\* call carries -DCMAKE_BUILD_TYPE= with that name once and no
\* per-configuration directory flag; on a Windows host each configure call
\* carries the library and runtime output-directory flags suffixed with the
\* upper-cased name (DEBUG or RELEASE), none for the other name and no
\* CMAKE_BUILD_TYPE.
C12_BuildConfigurationName ==
    LET name == IF debug THEN "Debug" ELSE "Release"
        upper == IF debug THEN "DEBUG" ELSE "RELEASE"
        other == IF debug THEN "RELEASE" ELSE "DEBUG"
        dirflags(u) == {"-DCMAKE_LIBRARY_OUTPUT_DIRECTORY_" \o u \o "=",
                        "-DCMAKE_RUNTIME_OUTPUT_DIRECTORY_" \o u \o "="}
    IN
    /\ \A i \in BuildCalls :
          LET a == calls[i].argv IN
          /\ Cardinality(Occurrences(a, "--config")) = 1
          /\ \A k \in Occurrences(a, "--config") : k < Len(a) /\ a[k + 1] = name
    /\ \A i \in ConfigureCalls :
          LET a == calls[i].argv
              type == Positions(a, "-DCMAKE_BUILD_TYPE=")
          IN
          /\ \A p \in dirflags(other) : Positions(a, p) = {}
          /\ IF platform_system = "Windows"
             THEN /\ type = {}
                  /\ \A p \in dirflags(upper) : Cardinality(Positions(a, p)) = 1
             ELSE /\ Cardinality(type) = 1
                  /\ \A k \in type : Suffix(a[k], "-DCMAKE_BUILD_TYPE=") = name
                  /\ \A p \in dirflags(upper) : Positions(a, p) = {}

C12_Witness ==
    /\ Cardinality(BuildCalls) = 2
    /\ debug
    /\ platform_system = "Windows"

\* C13: on a Windows host every build call carries /m, no token starting
\* with -j and no CPU count, and no probe subprocess is ever spawned; on any
\* other host every build call carries exactly one token starting with -j
\* and never /m.
C13_ParallelismByPlatform ==
    /\ platform_system = "Windows"
       => \A i \in DOMAIN calls : calls[i].kind # "probe"
    /\ \A i \in BuildCalls :
          LET a == calls[i].argv IN
          IF platform_system = "Windows"
          THEN /\ Occurrences(a, "/m") # {}
               /\ Positions(a, "-j") = {}
               /\ \A k \in DOMAIN a : ~IsCount(a[k])
          ELSE /\ Cardinality(Positions(a, "-j")) = 1
               /\ Occurrences(a, "/m") = {}

C13_Witness ==
    /\ BuildCalls # {}
    /\ platform_system = "Windows"
    /\ pc = "Finished"

\* C14: on a non-Windows host every configure call carries exactly one
\* -DCMAKE_C_COMPILER= token and exactly one -DCMAKE_CXX_COMPILER= token,
\* whose value is the value of C_COMPILER / CXX_COMPILER when that variable is
\* set and gcc / g++ when it is not; on a Windows host no configure call
\* carries either token.
C14_CompilerTokens ==
    \A i \in ConfigureCalls :
        LET a == calls[i].argv
            cc == Positions(a, "-DCMAKE_C_COMPILER=")
            cxx == Positions(a, "-DCMAKE_CXX_COMPILER=")
        IN
        IF platform_system = "Windows"
        THEN cc = {} /\ cxx = {}
        ELSE /\ Cardinality(cc) = 1
             /\ Cardinality(cxx) = 1
             /\ \A k \in cc :
                   Suffix(a[k], "-DCMAKE_C_COMPILER=") =
                       IF Getenv("C_COMPILER") = None THEN "gcc"
                       ELSE Value(Getenv("C_COMPILER"))
             /\ \A k \in cxx :
                   Suffix(a[k], "-DCMAKE_CXX_COMPILER=") =
                       IF Getenv("CXX_COMPILER") = None THEN "g++"
                       ELSE Value(Getenv("CXX_COMPILER"))

C14_Witness ==
    /\ ConfigureCalls # {}
    /\ platform_system = "Darwin"
    /\ Getenv("C_COMPILER") = Some("clang")
    /\ Getenv("CXX_COMPILER") = None

----------------------------------------------------------------------------
(* Properties of a whole run *)

\* The subprocesses spawned for target e, as positions of the log.
CallsFor(e) == {i \in DOMAIN calls : calls[i].ext = e}

\* Target e is Done: its build step exited with code 0.
Done(e) == \E i \in BuildCalls : calls[i].ext = e /\ Succeeded(calls[i])

\* Target e is Failed: an exception raised while it was the current target
\* ended the run.
Failed(e) == pc = "Failed" /\ idx = e

\* C15: in every state each target has at most one configure call and at
\* most one build call; and no step of the run spawns a subprocess for a
\* target that is Done or Failed, or takes that target out of that state.
C15_NoRetry ==
    /\ [](\A e \in DOMAIN extensions :
            /\ Cardinality(CallsFor(e) \cap ConfigureCalls) <= 1
            /\ Cardinality(CallsFor(e) \cap BuildCalls) <= 1)
    /\ [][\A e \in DOMAIN extensions :
            /\ (Done(e) \/ Failed(e)) => CallsFor(e)' = CallsFor(e)
            /\ Done(e) => Done(e)'
            /\ Failed(e) => Failed(e)']_vars

C15_Witness ==
    /\ Len(extensions) >= 2
    /\ Done(1)
    /\ Failed(2)
    /\ LastCall.kind = "build"

\* How the probe of target e ended (empty when no probe was spawned for it).
ProbeResult(e) ==
    {<<calls[i].exc, calls[i].output>> :
        i \in {j \in CallsFor(e) : calls[j].kind = "probe"}}

\* C16: within a run (host, options and environment fixed) all configure
\* calls carry the same argument list and the same env= value, whatever the
\* position of their target; and two build calls whose targets got the same
\* answer from the probe carry the same argument list.
C16_ArgumentsNotShared ==
    /\ \A i, j \in ConfigureCalls :
          /\ calls[i].argv = calls[j].argv
          /\ calls[i].env = calls[j].env
    /\ \A i, j \in BuildCalls :
          ProbeResult(calls[i].ext) = ProbeResult(calls[j].ext)
          => calls[i].argv = calls[j].argv

C16_Witness ==
    /\ Cardinality(BuildCalls) = 2
    /\ Getenv("USE_GPU") = Some("Yes")
    /\ platform_system = "Linux"
    /\ ProbeResult(1) = ProbeResult(2)

Terminal == {"Finished", "Failed"}

\* C17: every run reaches Finished or Failed (so it is never stuck at a
\* position that is not a terminal one: it waits only for the subprocess of
\* its next step); a Finished run has every target Done and a Failed run
\* carries the exception that ended it.
C17_RunTerminates ==
    /\ <>(pc \in Terminal)
    /\ [](pc = "Finished"
          => /\ \A e \in DOMAIN extensions : Done(e)
             /\ error = NoError)
    /\ [](pc = "Failed" => error # NoError)

C17_Witness ==
    /\ pc = "Finished"
    /\ Len(extensions) >= 2
    /\ Cardinality(BuildCalls) = Len(extensions)

\* C18: with the explicit option given as the empty string and a non-empty
\* QULACS_OPT_FLAGS, no configure call carries an OPT_FLAGS definition: not
\* the environment value and not an empty one.
C18_EmptyOptionShadowsEnvironment ==
    (opt_flags = Some("") /\ Truthy(Getenv("QULACS_OPT_FLAGS")))
    => \A i \in ConfigureCalls : \A x \in Keys(calls[i].argv) : x[2] # "OPT_FLAGS"

C18_Witness ==
    /\ ConfigureCalls # {}
    /\ opt_flags = Some("")
    /\ Getenv("QULACS_OPT_FLAGS") = Some("-O3")
    /\ Len(LastCall.argv) > 2

====
